---- MODULE Spec2Model ----
(***************************************************************************)
(* Model of the SecretSantaGenerator component                             *)
(* (src/src/SecretSantaGenerator.jsx): the three-step session, the event   *)
(* details form, the participant form, and generateAssignments with its    *)
(* Fisher-Yates shuffle, bounded reshuffle loop and asynchronous dispatch. *)
(*                                                                         *)
(* Strings that the code only tests for emptiness are TLA+ strings.        *)
(* Strings that the code parses (participantCount, email) are sequences of *)
(* one-character strings, so that parseInt and the email regular           *)
(* expression are computed character by character.                         *)
(*                                                                         *)
(* A participant object's identity is its slot in the participants array   *)
(* the handler closed over: the array holds one distinct object per slot   *)
(* (line 43 creates one per slot, line 61 replaces one slot by a fresh     *)
(* object), so a reference is modelled as the slot's index.                *)
(***************************************************************************)
EXTENDS Integers, Sequences, FiniteSets, TLC

VARIABLES
    step,           \* useState(1), line 11
    eventDetails,   \* useState({...}), lines 14-18
    participants,   \* useState([]), line 21
    error,          \* useState(''), line 24
    sending,        \* useState(false), line 27
    pc,             \* "idle": no handler running; "loop": inside generateAssignments' while loop
    shuffled,       \* local `shuffled` of generateAssignments (slot indices), <<>> outside the handler
    attempts,       \* local `attempts` of generateAssignments, 0 outside the handler
    inflight,       \* request bodies of the fetch calls that have not settled yet
    lastOp          \* history: the handler (and its outcome) that took the last step

vars == <<step, eventDetails, participants, error, sending, pc, shuffled, attempts, inflight, lastOp>>

----------------------------------------------------------------------------
\* Bounds of the model

\* largest participant count typed into the form
MaxCount == 3

\* cap on the number of unsettled fetch calls the model tracks
MaxInFlight == 2

----------------------------------------------------------------------------
\* Program constants and literals

maxAttempts == 100

MsgFillFields == "Please fill in all fields"

MsgFillParticipants == "Please fill in all participant details"

MsgInvalidEmail == "Please enter valid email addresses"

MsgExhausted == "Could not generate valid assignments. Please try again."

MsgSendEmails == "Failed to send emails"

MsgFallback == "Failed to send assignments. Please try again."

----------------------------------------------------------------------------
\* Input alphabets

DigitChars == <<"0", "1", "2", "3", "4", "5", "6", "7", "8", "9">>

IsDigit(c) == \E d \in 1..Len(DigitChars) : DigitChars[d] = c

DigitValue(c) == (CHOOSE d \in 1..Len(DigitChars) : DigitChars[d] = c) - 1

\* what the user can type into the participantCount field
CountInputs ==
    {<<>>, <<"-", "1">>, <<"2", ".", "5">>} \cup {<<DigitChars[n + 1]>> : n \in 0..MaxCount}

DateInputs == {"", "2024-12-25"}

BudgetInputs == {"", "20"}

NameInputs == {"", "Ann"}

EmailBad == <<"b", "a", "d", "-", "e", "m", "a", "i", "l">>

EmailGood == <<"a", "@", "b", ".", "c">>

EmailInputs == {<<>>, EmailBad, EmailGood}

\* messages a server response or a rejected promise can carry ("" = none)
ServerMessages == {"", "quota exceeded"}

RaiseMessages == {"", "Failed to fetch"}

----------------------------------------------------------------------------
\* Pure helpers

\* JavaScript truthiness of a string: only '' is falsy
Truthy(s) == s # ""

\* the same for a string kept as a sequence of characters
TruthyChars(s) == Len(s) > 0

\* parseInt(s): optional sign, then the longest run of digits; NaN without digits
RECURSIVE DigitRun(_, _, _)
DigitRun(s, i, acc) ==
    IF i > Len(s) \/ ~IsDigit(s[i]) THEN acc
    ELSE DigitRun(s, i + 1, acc * 10 + DigitValue(s[i]))

ParseInt(s) ==
    LET neg == Len(s) > 0 /\ s[1] = "-"
        start == IF Len(s) > 0 /\ (s[1] = "-" \/ s[1] = "+") THEN 2 ELSE 1
        hasDigit == start <= Len(s) /\ IsDigit(s[start])
        mag == DigitRun(s, start, 0)
    IN  [nan |-> ~hasDigit, value |-> IF ~hasDigit THEN 0 ELSE IF neg THEN 0 - mag ELSE mag]

\* Array(n) throws RangeError unless n is a valid array length
ArrayLengthOk(n) == ~n.nan /\ n.value >= 0

\* (one placeholder too few)
BlankParticipantsShort(n) == [k \in 1..(n - 1) |-> [name |-> "", email |-> <<>>]]

BlankParticipants(n) == [k \in 1..n |-> [name |-> "", email |-> <<>>]]

\* [^\s@]
PlainChar(c) == c # "@" /\ c # " "

AllPlain(s, from, to) == from <= to /\ \A k \in from..to : PlainChar(s[k])

\* email.match(/^[^\s@]+@[^\s@]+\.[^\s@]+$/)
ValidateEmailLax(email) == Len(email) > 0

ValidateEmail(email) ==
    \E a \in 1..Len(email) : \E d \in 1..Len(email) :
        /\ a < d
        /\ email[a] = "@"
        /\ email[d] = "."
        /\ AllPlain(email, 1, a - 1)
        /\ AllPlain(email, a + 1, d - 1)
        /\ AllPlain(email, d + 1, Len(email))

----------------------------------------------------------------------------
\* The shuffle and the fixed-point test of generateAssignments

\* const shuffled = [...participants]: slot k holds the object of slot k
CopyOf(parts) == [k \in 1..Len(parts) |-> k]

\* [shuffled[i], shuffled[j]] = [shuffled[j], shuffled[i]]
Swap(s, i, j) == [s EXCEPT ![i] = s[j], ![j] = s[i]]

\* for (i = length - 1; i > 0; i--) { j = floor(random() * (i + 1)); swap }
\* every outcome of the random choices; indices are 1-based here
RECURSIVE FisherYates(_, _)
FisherYates(s, i) ==
    IF i < 2 THEN {s}
    ELSE UNION {FisherYates(Swap(s, i, j), i - 1) : j \in 1..i}

\* (a shuffle that draws every slot afresh from the elements)
ShuffleResampling(s) == [1..Len(s) -> {s[k] : k \in 1..Len(s)}]

Shuffle(s) == FisherYates(s, Len(s))

\* shuffled.some((person, index) => person === participants[index])
HasFixedPoint(sh) == \E k \in 1..Len(sh) : sh[k] = k

\* the while condition
LoopContinuesUnbounded(sh, att) == HasFixedPoint(sh) /\ att < maxAttempts + 1

LoopContinues(sh, att) == HasFixedPoint(sh) /\ att < maxAttempts

\* if (attempts === maxAttempts)
GivesUpNever(att) == FALSE

GivesUp(att) == att = maxAttempts

\* participants.map((giver, index) => ({giver, receiver: shuffled[index]}))
\* giverRef / receiverRef are the object references, giver / receiver the
\* values JSON.stringify writes for them
BuildAssignments(parts, sh) ==
    [k \in 1..Len(parts) |->
        [giverRef |-> k, receiverRef |-> sh[k],
         giver |-> parts[k], receiver |-> parts[sh[k]]]]

\* body of the POST request
Payload(parts, sh, details) ==
    [assignments |-> BuildAssignments(parts, sh), eventDetails |-> details]

----------------------------------------------------------------------------
\* Validation and message selection

\* !eventDetails.participantCount || !eventDetails.exchangeDate || !eventDetails.budget
EventFieldsMissingNoBudget(d) ==
    ~TruthyChars(d.participantCount) \/ ~Truthy(d.exchangeDate)

EventFieldsMissing(d) ==
    ~TruthyChars(d.participantCount) \/ ~Truthy(d.exchangeDate) \/ ~Truthy(d.budget)

\* participants.some(p => !p.name || !p.email)
SomeIncompleteNameOnly(parts) == \E k \in 1..Len(parts) : ~Truthy(parts[k].name)

SomeIncomplete(parts) ==
    \E k \in 1..Len(parts) : ~Truthy(parts[k].name) \/ ~TruthyChars(parts[k].email)

\* participants.some(p => !validateEmail(p.email))
SomeInvalidEmailUnchecked(parts) == FALSE

SomeInvalidEmail(parts) == \E k \in 1..Len(parts) : ~ValidateEmail(parts[k].email)

\* disabled={sending} on the Generate & Send button
ButtonAlwaysEnabled == TRUE

ButtonEnabled == ~sending

\* if (!data.success)
DataSuccessIgnored(data) == TRUE

DataSuccess(data) == data.success

\* data.message || 'Failed to send emails'
ThrownMessageGeneric(data) == MsgSendEmails

ThrownMessage(data) == IF Truthy(data.message) THEN data.message ELSE MsgSendEmails

\* error.message || 'Failed to send assignments. Please try again.'
CatchMessageRaw(m) == m

CatchMessage(m) == IF Truthy(m) THEN m ELSE MsgFallback

Op(name, outcome, message) == [op |-> name, outcome |-> outcome, message |-> message]

----------------------------------------------------------------------------
\* Initial state: the useState defaults; no handler running, nothing in flight

Init ==
    /\ step = 1
    /\ eventDetails = [participantCount |-> <<>>, exchangeDate |-> "", budget |-> ""]
    /\ participants = <<>>
    /\ error = ""
    /\ sending = FALSE
    /\ pc = "idle"
    /\ shuffled = <<>>
    /\ attempts = 0
    /\ inflight = <<>>
    /\ lastOp = Op("init", "", "")

----------------------------------------------------------------------------
\* Step 1: the event details form (rendered only while step === 1)

\* onChange of the three inputs: setEventDetails({...eventDetails, field: value})
SetParticipantCount(v) ==
    /\ step = 1 /\ pc = "idle"
    /\ eventDetails' = [eventDetails EXCEPT !.participantCount = v]
    /\ lastOp' = Op("setEventDetails", "participantCount", "")
    /\ UNCHANGED <<step, participants, error, sending, pc, shuffled, attempts, inflight>>

SetExchangeDate(v) ==
    /\ step = 1 /\ pc = "idle"
    /\ eventDetails' = [eventDetails EXCEPT !.exchangeDate = v]
    /\ lastOp' = Op("setEventDetails", "exchangeDate", "")
    /\ UNCHANGED <<step, participants, error, sending, pc, shuffled, attempts, inflight>>

SetBudget(v) ==
    /\ step = 1 /\ pc = "idle"
    /\ eventDetails' = [eventDetails EXCEPT !.budget = v]
    /\ lastOp' = Op("setEventDetails", "budget", "")
    /\ UNCHANGED <<step, participants, error, sending, pc, shuffled, attempts, inflight>>

\* The three ways through handleEventDetailsSubmit, as the handler's effect on
\* the state whatever called it.
\* A field is empty: setError and return
SubmitMissingEffect ==
    /\ EventFieldsMissing(eventDetails)
    /\ error' = MsgFillFields
    /\ UNCHANGED <<step, eventDetails, participants, sending, pc, shuffled, attempts, inflight>>

\* Array(parseInt(...)) throws RangeError before any setter is called: the
\* handler ends without changing the state
SubmitThrowsEffect ==
    /\ ~EventFieldsMissing(eventDetails)
    /\ ~ArrayLengthOk(ParseInt(eventDetails.participantCount))
    /\ UNCHANGED <<step, eventDetails, participants, error, sending, pc, shuffled, attempts, inflight>>

\* (the placeholders added to the participants already there)
SubmitOkEffectAppending ==
    /\ ~EventFieldsMissing(eventDetails)
    /\ ArrayLengthOk(ParseInt(eventDetails.participantCount))
    /\ participants' =
        participants \o BlankParticipants(ParseInt(eventDetails.participantCount).value)
    /\ step' = 2
    /\ error' = ""
    /\ UNCHANGED <<eventDetails, sending, pc, shuffled, attempts, inflight>>

\* The rest: setParticipants, setStep(2), setError('')
SubmitOkEffect ==
    /\ ~EventFieldsMissing(eventDetails)
    /\ ArrayLengthOk(ParseInt(eventDetails.participantCount))
    /\ participants' = BlankParticipants(ParseInt(eventDetails.participantCount).value)
    /\ step' = 2
    /\ error' = ""
    /\ UNCHANGED <<eventDetails, sending, pc, shuffled, attempts, inflight>>

\* the form's onSubmit (the form is rendered only while step === 1)
SubmitMissing ==
    /\ step = 1 /\ pc = "idle"
    /\ SubmitMissingEffect
    /\ lastOp' = Op("handleEventDetailsSubmit", "missing", "")

SubmitThrows ==
    /\ step = 1 /\ pc = "idle"
    /\ SubmitThrowsEffect
    /\ lastOp' = Op("handleEventDetailsSubmit", "threw", "RangeError")

SubmitOk ==
    /\ step = 1 /\ pc = "idle"
    /\ SubmitOkEffect
    /\ lastOp' = Op("handleEventDetailsSubmit", "ok", "")

HandleEventDetailsSubmit == SubmitMissing \/ SubmitThrows \/ SubmitOk

----------------------------------------------------------------------------
\* Step 2: the participant form (rendered only while step === 2)

\* (the slot replaced by an object holding only the named field)
ChangeNameDroppingRest(i, v) ==
    /\ step = 2 /\ pc = "idle"
    /\ i \in 1..Len(participants)
    /\ participants' = [participants EXCEPT ![i] = [name |-> v, email |-> <<>>]]
    /\ lastOp' = Op("handleParticipantChange", "name", "")
    /\ UNCHANGED <<step, eventDetails, error, sending, pc, shuffled, attempts, inflight>>

\* handleParticipantChange(index, 'name', value)
ChangeName(i, v) ==
    /\ step = 2 /\ pc = "idle"
    /\ i \in 1..Len(participants)
    /\ participants' = [participants EXCEPT ![i] = [participants[i] EXCEPT !.name = v]]
    /\ lastOp' = Op("handleParticipantChange", "name", "")
    /\ UNCHANGED <<step, eventDetails, error, sending, pc, shuffled, attempts, inflight>>

\* handleParticipantChange(index, 'email', value)
ChangeEmail(i, v) ==
    /\ step = 2 /\ pc = "idle"
    /\ i \in 1..Len(participants)
    /\ participants' = [participants EXCEPT ![i] = [participants[i] EXCEPT !.email = v]]
    /\ lastOp' = Op("handleParticipantChange", "email", "")
    /\ UNCHANGED <<step, eventDetails, error, sending, pc, shuffled, attempts, inflight>>

\* a click on the Generate & Send button runs generateAssignments
Clickable == step = 2 /\ pc = "idle" /\ ButtonEnabled

\* generateAssignments, first check fails
GenIncomplete ==
    /\ Clickable
    /\ SomeIncomplete(participants)
    /\ error' = MsgFillParticipants
    /\ lastOp' = Op("generateAssignments", "incomplete", "")
    /\ UNCHANGED <<step, eventDetails, participants, sending, pc, shuffled, attempts, inflight>>

\* generateAssignments, second check fails
GenInvalidEmail ==
    /\ Clickable
    /\ ~SomeIncomplete(participants)
    /\ SomeInvalidEmail(participants)
    /\ error' = MsgInvalidEmail
    /\ lastOp' = Op("generateAssignments", "invalidEmail", "")
    /\ UNCHANGED <<step, eventDetails, participants, sending, pc, shuffled, attempts, inflight>>

\* generateAssignments, both checks pass: setSending(true), copy, first shuffle,
\* attempts = 0; the handler goes on synchronously into the while loop
GenStart ==
    /\ Clickable
    /\ Len(inflight) < MaxInFlight
    /\ ~SomeIncomplete(participants)
    /\ ~SomeInvalidEmail(participants)
    /\ sending' = TRUE
    /\ shuffled' \in Shuffle(CopyOf(participants))
    /\ attempts' = 0
    /\ pc' = "loop"
    /\ lastOp' = Op("generateAssignments", "started", "")
    /\ UNCHANGED <<step, eventDetails, participants, error, inflight>>

GenerateAssignments == GenIncomplete \/ GenInvalidEmail \/ GenStart

\* one iteration of the while loop: reshuffle in place, attempts++
Reshuffle ==
    /\ pc = "loop"
    /\ LoopContinues(shuffled, attempts)
    /\ shuffled' \in Shuffle(shuffled)
    /\ attempts' = attempts + 1
    /\ lastOp' = Op("generateAssignments", "reshuffled", "")
    /\ UNCHANGED <<step, eventDetails, participants, error, sending, pc, inflight>>

\* the loop has ended and attempts === maxAttempts: throw, caught at line 158:
\* setError(error.message || fallback), setSending(false)
ThrowExhausted ==
    /\ pc = "loop"
    /\ ~LoopContinues(shuffled, attempts)
    /\ GivesUp(attempts)
    /\ error' = CatchMessage(MsgExhausted)
    /\ sending' = FALSE
    /\ pc' = "idle"
    /\ shuffled' = <<>>
    /\ attempts' = 0
    /\ lastOp' = Op("generateAssignments", "exhausted", "")
    /\ UNCHANGED <<step, eventDetails, participants, inflight>>

\* the loop has ended otherwise: build the assignments, call fetch and suspend
\* at the await
SendAssignments ==
    /\ pc = "loop"
    /\ ~LoopContinues(shuffled, attempts)
    /\ ~GivesUp(attempts)
    /\ inflight' = Append(inflight, Payload(participants, shuffled, eventDetails))
    /\ pc' = "idle"
    /\ shuffled' = <<>>
    /\ attempts' = 0
    /\ lastOp' = Op("generateAssignments", "sent", "")
    /\ UNCHANGED <<step, eventDetails, participants, error, sending>>

----------------------------------------------------------------------------
\* The continuation of generateAssignments after the awaits

Without(seq, p) == [k \in 1..(Len(seq) - 1) |-> IF k < p THEN seq[k] ELSE seq[k + 1]]

\* the response parsed; data.success holds: setSending(false), setStep(3), setError('')
ResponseSuccess(p, data) ==
    /\ pc = "idle"
    /\ p \in 1..Len(inflight)
    /\ DataSuccess(data)
    /\ inflight' = Without(inflight, p)
    /\ sending' = FALSE
    /\ step' = 3
    /\ error' = ""
    /\ lastOp' = Op("response", IF data.success THEN "success" ELSE "failure", data.message)
    /\ UNCHANGED <<eventDetails, participants, pc, shuffled, attempts>>

\* the response parsed; data.success does not hold: throw, caught at line 158
ResponseFailure(p, data) ==
    /\ pc = "idle"
    /\ p \in 1..Len(inflight)
    /\ ~DataSuccess(data)
    /\ inflight' = Without(inflight, p)
    /\ error' = CatchMessage(ThrownMessage(data))
    /\ sending' = FALSE
    /\ lastOp' = Op("response", IF data.success THEN "success" ELSE "failure", data.message)
    /\ UNCHANGED <<step, eventDetails, participants, pc, shuffled, attempts>>

\* (the rejection is not caught: no setter runs)
FetchRaisesUncaught(p, m) ==
    /\ pc = "idle"
    /\ p \in 1..Len(inflight)
    /\ inflight' = Without(inflight, p)
    /\ lastOp' = Op("response", "raised", m)
    /\ UNCHANGED <<step, eventDetails, participants, error, sending, pc, shuffled, attempts>>

\* fetch rejects or response.json() throws an error with message m: caught at line 158
FetchRaises(p, m) ==
    /\ pc = "idle"
    /\ p \in 1..Len(inflight)
    /\ inflight' = Without(inflight, p)
    /\ error' = CatchMessage(m)
    /\ sending' = FALSE
    /\ lastOp' = Op("response", "raised", m)
    /\ UNCHANGED <<step, eventDetails, participants, pc, shuffled, attempts>>

Responses == [success : BOOLEAN, message : ServerMessages]

----------------------------------------------------------------------------

Next ==
    \/ \E v \in CountInputs : SetParticipantCount(v)
    \/ \E v \in DateInputs : SetExchangeDate(v)
    \/ \E v \in BudgetInputs : SetBudget(v)
    \/ HandleEventDetailsSubmit
    \/ \E i \in 1..Len(participants) : \E v \in NameInputs : ChangeName(i, v)
    \/ \E i \in 1..Len(participants) : \E v \in EmailInputs : ChangeEmail(i, v)
    \/ GenerateAssignments
    \/ Reshuffle
    \/ ThrowExhausted
    \/ SendAssignments
    \/ \E p \in 1..Len(inflight) : \E data \in Responses : ResponseSuccess(p, data)
    \/ \E p \in 1..Len(inflight) : \E data \in Responses : ResponseFailure(p, data)
    \/ \E p \in 1..Len(inflight) : \E m \in RaiseMessages : FetchRaises(p, m)

Spec == Init /\ [][Next]_vars

\* the synchronous part of generateAssignments runs to completion
HandlerStep == Reshuffle \/ ThrowExhausted \/ SendAssignments

\* a pending fetch settles: a response is parsed or the call raises
Settles ==
    \E p \in 1..Len(inflight) :
        \/ \E data \in Responses : ResponseSuccess(p, data) \/ ResponseFailure(p, data)
        \/ \E m \in RaiseMessages : FetchRaises(p, m)

\* handleEventDetailsSubmit applied as a function of the session, twice in a
\* row, from every step-1 session the form can produce
InitSubmit ==
    /\ step = 1
    /\ eventDetails \in
        [participantCount : CountInputs, exchangeDate : DateInputs, budget : BudgetInputs]
    /\ participants = <<>>
    /\ error \in {"", MsgFillFields}
    /\ sending = FALSE
    /\ pc = "idle"
    /\ shuffled = <<>>
    /\ attempts = 0
    /\ inflight = <<>>
    /\ lastOp = Op("init", "", "")

CallSubmit(nth) ==
    /\ lastOp' = Op("handleEventDetailsSubmit", nth, "")
    /\ (SubmitMissingEffect \/ SubmitThrowsEffect \/ SubmitOkEffect)

FirstCall == lastOp.op = "init" /\ CallSubmit("first")

SecondCall == lastOp.outcome = "first" /\ CallSubmit("second")

NextSubmit == FirstCall \/ SecondCall

SpecSubmit == InitSubmit /\ [][NextSubmit]_vars

\* Spec, with a running handler never abandoned and every fetch settling
SpecFair == Spec /\ WF_vars(HandlerStep) /\ WF_vars(Settles)

----------------------------------------------------------------------------
\* Vocabulary of the properties

\* the request bodies currently handed to the server
Payloads == {inflight[p] : p \in 1..Len(inflight)}

Refs(as) == 1..Len(as)

\* the inputs that have the local@domain.tld shape, listed by hand
WellShapedEmails == {EmailGood}

\* a participant that must not pass validation
Unacceptable(person) ==
    person.name = "" \/ person.email = <<>> \/ person.email \notin WellShapedEmails

\* this step is a run of the handler `name` from the idle state
Runs(name) == pc = "idle" /\ lastOp'.op = name

\* the last step was a server response / a rejection with this outcome
Settled(outcome) == lastOp.op = "response" /\ lastOp.outcome = outcome

----------------------------------------------------------------------------
\* C1: no assignment list handed to the server pairs a participant object
\* with itself (receiver and giver are never the same slot's object).
C1_NoSelfAssignment ==
    \A pl \in Payloads : \A k \in Refs(pl.assignments) :
        pl.assignments[k].receiverRef # pl.assignments[k].giverRef

\* three participants were paired and sent
C1_Witness ==
    /\ lastOp = Op("generateAssignments", "sent", "")
    /\ \E pl \in Payloads : Len(pl.assignments) = 3

\* C2: a generated list has one assignment per participant, the k-th giver is
\* the k-th participant, and the receivers are the participants in some
\* order, each exactly once.
C2_ReceiversArePermutation ==
    /\ \A pl \in Payloads :
        LET as == pl.assignments IN
        /\ Len(as) = Len(participants)
        /\ \A k \in Refs(as) : as[k].giverRef = k
        /\ {as[k].receiverRef : k \in Refs(as)} = Refs(as)
        /\ \A k \in Refs(as) : as[k].receiver = as[as[k].receiverRef].giver
    /\ lastOp = Op("generateAssignments", "sent", "") =>
        LET as == inflight[Len(inflight)].assignments IN
        \A k \in Refs(as) : as[k].giver = participants[k]

\* a list for three participants in which somebody's receiver is not the next slot
C2_Witness ==
    /\ lastOp = Op("generateAssignments", "sent", "")
    /\ \E pl \in Payloads :
        /\ Len(pl.assignments) = 3
        /\ pl.assignments[1].receiverRef = 3

\* C3 (as claimed): when the while loop ends with a working sequence that has
\* no fixed point, generation succeeds and the list is built from that
\* sequence; it fails only with a fixed point left. Stated for the documented
\* input range of three or more participants.
C3_DerangementAlwaysAccepted ==
    [][(pc = "loop" /\ pc' = "idle" /\ Len(participants) >= 3 /\ ~HasFixedPoint(shuffled)) =>
        /\ lastOp'.outcome = "sent"
        /\ inflight' = Append(inflight, Payload(participants, shuffled, eventDetails))]_vars

\* C4: at most one fetch is outstanding, no generation runs while one is, and
\* the flag is set for as long as either lasts.
C4_AtMostOneOutstanding ==
    /\ Len(inflight) + (IF pc = "loop" THEN 1 ELSE 0) <= 1
    /\ (Len(inflight) > 0 \/ pc = "loop") => sending

\* the user edited a participant while the one dispatch was in flight
C4_Witness ==
    /\ Len(inflight) = 1
    /\ sending
    /\ lastOp.op = "handleParticipantChange"

\* C5: a click with an unacceptable participant sets an error, keeps step 2,
\* leaves the flag unset, starts no generation and no fetch.
C5_InvalidInputStopsBeforeGeneration ==
    [][(Runs("generateAssignments") /\ step = 2
            /\ \E k \in 1..Len(participants) : Unacceptable(participants[k])) =>
        /\ error' # ""
        /\ step' = 2
        /\ ~sending'
        /\ pc' = "idle" /\ shuffled' = <<>> /\ attempts' = 0
        /\ inflight' = inflight]_vars

\* Scenario C: everybody is named, one email is "bad-email", the click was refused
C5_Witness ==
    /\ lastOp = Op("generateAssignments", "invalidEmail", "")
    /\ error = MsgInvalidEmail
    /\ Len(participants) = 3
    /\ \A k \in 1..Len(participants) : participants[k].name # ""
    /\ \E k \in 1..Len(participants) : participants[k].email = EmailBad
    /\ inflight = <<>>

\* C6 (as claimed): while the flag is set and the dispatch is in flight the
\* error message is empty. Stated for the documented input range of three or
\* more participants.
C6_NoErrorWhileSending ==
    (sending /\ Len(inflight) > 0 /\ Len(participants) >= 3) => error = ""

\* C7: step becomes 3 only by a response reporting success, and that step
\* clears the flag and the error message.
C7_ConfirmedOnlyBySuccess ==
    [][(step' = 3 /\ step # 3) =>
        /\ lastOp'.op = "response" /\ lastOp'.outcome = "success"
        /\ Len(inflight') = Len(inflight) - 1
        /\ ~sending'
        /\ error' = ""]_vars

\* the session was confirmed by a successful response
C7_Witness == step = 3 /\ Settled("success") /\ ~sending /\ error = ""

\* C8: a response with success = false and a non-empty message m leaves
\* error = m, step 2 and the flag cleared.
C8_FailureMessageShown ==
    (Settled("failure") /\ lastOp.message # "") =>
        /\ error = lastOp.message
        /\ step = 2
        /\ ~sending

\* Scenario D
C8_Witness == lastOp = Op("response", "failure", "quota exceeded") /\ error = "quota exceeded"

\* C9 (as claimed): a failure without a message, reported or raised, leaves
\* the fallback "Failed to send assignments. Please try again.".
C9_OneFallback ==
    ((Settled("failure") \/ Settled("raised")) /\ lastOp.message = "") => error = MsgFallback

\* C9 (amended): a success = false response without a message leaves
\* "Failed to send emails"; a raised failure with an empty message leaves
\* "Failed to send assignments. Please try again.".
C9_TwoFallbacks ==
    /\ (Settled("failure") /\ lastOp.message = "") => error = MsgSendEmails
    /\ (Settled("raised") /\ lastOp.message = "") => error = MsgFallback

\* the server answered success = false without a message
C9_Witness == lastOp = Op("response", "failure", "") /\ error = MsgSendEmails /\ ~sending

\* C10: a submit with participantCount, exchangeDate or budget empty keeps
\* step 1, sets a non-empty error and leaves participants empty.
C10_MissingFieldRejected ==
    [][(Runs("handleEventDetailsSubmit") /\ step = 1
            /\ (eventDetails.participantCount = <<>> \/ eventDetails.exchangeDate = ""
                \/ eventDetails.budget = "")) =>
        /\ step' = 1
        /\ error' # ""
        /\ participants' = participants
        /\ participants' = <<>>]_vars

\* Scenario B: only the budget is empty and the submit was refused
C10_Witness ==
    /\ lastOp = Op("handleEventDetailsSubmit", "missing", "")
    /\ eventDetails.budget = ""
    /\ eventDetails.participantCount = <<"3">>
    /\ eventDetails.exchangeDate # ""
    /\ step = 1 /\ error = MsgFillFields /\ participants = <<>>

\* C11 (as claimed): once step 2 is reached there are at least three
\* participants, and no list of fewer than three assignments is sent.
C11_AtLeastThreeParticipants ==
    /\ step >= 2 => Len(participants) >= 3
    /\ \A pl \in Payloads : Len(pl.assignments) >= 3

\* the whole number a participantCount input spells, for the one-digit inputs
SpellsWhole(s, n) == s = <<DigitChars[n + 1]>>

C13_ChangeTouchesOneField ==
    [][Runs("handleParticipantChange") =>
        /\ Len(participants') = Len(participants)
        /\ \E i \in 1..Len(participants) :
            /\ \A k \in 1..Len(participants) : k # i => participants'[k] = participants[k]
            /\ lastOp'.outcome = "name" => participants'[i].email = participants[i].email
            /\ lastOp'.outcome = "email" => participants'[i].name = participants[i].name
        /\ step' = step /\ error' = error /\ sending' = sending
        /\ inflight' = inflight]_vars

\* the second participant's name was changed beside filled-in neighbours
C13_Witness ==
    /\ lastOp = Op("handleParticipantChange", "name", "")
    /\ Len(participants) = 3
    /\ participants[2] = [name |-> "", email |-> EmailGood]
    /\ participants[1] = [name |-> "Ann", email |-> EmailGood]
    /\ participants[3] = [name |-> "Ann", email |-> EmailBad]

\* C14: a set flag never stays behind. While it is set the handler is still
\* running or a fetch is pending, each of which can always take its next
\* step; the handler's failure exit and every settlement of the fetch clear
\* it; and whenever it is cleared the session is at step 3 or at step 2 with
\* an error message.
C14_FlagNeverLeftSet ==
    /\ [](sending => (pc = "loop" \/ Len(inflight) > 0))
    /\ [](pc = "loop" => ENABLED HandlerStep)
    /\ []((pc = "idle" /\ Len(inflight) > 0) => ENABLED Settles)
    /\ [][(Len(inflight') < Len(inflight)
            \/ (pc = "loop" /\ pc' = "idle" /\ inflight' = inflight)) => ~sending']_vars
    /\ [][(sending /\ ~sending') =>
            (step' = 3 \/ (step' = 2 /\ error' # ""))]_vars

\* the same as a liveness property of SpecFair: a set flag is eventually cleared
FlagEventuallyCleared == sending ~> ~sending

\* a raised failure without a message was caught and the flag cleared
C14_Witness ==
    /\ lastOp = Op("response", "raised", "")
    /\ ~sending /\ step = 2 /\ error # ""
    /\ inflight = <<>>

\* C15: with all three fields filled in, a second handleEventDetailsSubmit
\* right after the first leaves the number of participants and the step as
\* the first left them, whatever error message was there before.
C15_SubmitIdempotent ==
    [][(lastOp.outcome = "first" /\ lastOp'.outcome = "second"
            /\ eventDetails.participantCount # <<>> /\ eventDetails.exchangeDate # ""
            /\ eventDetails.budget # "") =>
        /\ Len(participants') = Len(participants)
        /\ step' = step]_vars

\* the handler ran twice on a count of 3 and the session is at step 2 with 3 participants
C15_Witness ==
    /\ lastOp = Op("handleEventDetailsSubmit", "second", "")
    /\ eventDetails.participantCount = <<"3">>
    /\ step = 2
    /\ Len(participants) = 3

\* a participant with an empty name or an empty email
Incomplete(person) == person.name = "" \/ person.email = <<>>

\* C16: a click with some participant incomplete reports "fill in all
\* participant details", even when another participant's email is ill-shaped;
\* "enter valid email addresses" is reported only when every participant has
\* a name and an email.
C16_IncompleteReportedFirst ==
    [][(Runs("generateAssignments") /\ step = 2) =>
        /\ (\E k \in 1..Len(participants) : Incomplete(participants[k])) =>
            (error' = MsgFillParticipants /\ lastOp'.outcome = "incomplete")
        /\ lastOp'.outcome = "invalidEmail" =>
            /\ error' = MsgInvalidEmail
            /\ \A k \in 1..Len(participants) : ~Incomplete(participants[k])]_vars

\* one participant has no email, another one an ill-shaped email, and the
\* click reported the incomplete one
C16_Witness ==
    /\ lastOp = Op("generateAssignments", "incomplete", "")
    /\ error = MsgFillParticipants
    /\ Len(participants) = 3
    /\ participants[1] = [name |-> "Ann", email |-> EmailBad]
    /\ participants[2] = [name |-> "Ann", email |-> <<>>]

\* C17: the attempt counter stays within 0..100, every pass through the loop
\* counts one attempt, the loop can always take its next step, and it is
\* left only with a sent list or with the exhausted failure.
C17_GenerationBounded ==
    /\ [](attempts \in 0..100)
    /\ [][(pc = "loop" /\ pc' = "loop") => attempts' = attempts + 1]_vars
    /\ [](pc = "loop" => ENABLED HandlerStep)
    /\ [][(pc = "loop" /\ pc' = "idle") => lastOp'.outcome \in {"sent", "exhausted"}]_vars

\* the hundredth reshuffle of three participants was made
C17_Witness == pc = "loop" /\ attempts = 100 /\ Len(participants) = 3

\* the same as a liveness property of SpecFair: the loop is eventually left
GenerationEnds == (pc = "loop") ~> (pc = "idle")

\* C18: with one participant the loop is left only after 100 attempts and
\* only by the exhausted failure; nothing is sent.
C18_SingleParticipantExhausts ==
    /\ [](\A pl \in Payloads : Len(pl.assignments) # 1)
    /\ [][(pc = "loop" /\ pc' = "idle" /\ Len(participants) = 1) =>
            /\ attempts = 100
            /\ lastOp'.outcome = "exhausted"
            /\ error' = MsgExhausted
            /\ ~sending'
            /\ inflight' = inflight]_vars

\* generation for a single valid participant ended exhausted
C18_Witness ==
    /\ lastOp = Op("generateAssignments", "exhausted", "")
    /\ Len(participants) = 1
    /\ participants[1] = [name |-> "Ann", email |-> EmailGood]
    /\ error = MsgExhausted /\ inflight = <<>>

\* C19: at step 3 the error message is empty and the flag clear; no step
\* taken at step 3 changes step, error message or flag; the step never
\* decreases.
C19_ConfirmedIsStable ==
    /\ [](step = 3 => (error = "" /\ ~sending))
    /\ [][step = 3 => (step' = 3 /\ error' = error /\ sending' = sending)]_vars
    /\ [][step' >= step]_vars

\* confirmed, with nothing left in flight that could answer late
C19_Witness == step = 3 /\ inflight = <<>> /\ Len(participants) = 3 /\ pc = "idle"

\* C20: every giver and receiver of a request body has a name and a
\* well-shaped email, and a participant edit leaves the request bodies in
\* flight as they are.
C20_DispatchedIsValidated ==
    /\ [](\A pl \in Payloads : \A k \in Refs(pl.assignments) :
            /\ ~Unacceptable(pl.assignments[k].giver)
            /\ ~Unacceptable(pl.assignments[k].receiver))
    /\ [][Runs("handleParticipantChange") => inflight' = inflight]_vars

\* the first participant's email was spoilt while the list was in flight;
\* the list still carries the validated one
C20_Witness ==
    /\ Len(inflight) = 1
    /\ lastOp = Op("handleParticipantChange", "email", "")
    /\ Len(participants) = 3
    /\ participants[1].email = EmailBad
    /\ inflight[1].assignments[1].giver.email = EmailGood

====
